---- MODULE Spec2Model ----
(***************************************************************************)
(* A model of src/app.py: the Streamlit news summarizer.                   *)
(*                                                                         *)
(* Every browser session runs main() from top to bottom on each user       *)
(* event.  The three @st.cache_data functions and the @st.cache_resource   *)
(* model loader are shared by all sessions of the process.  A script run   *)
(* is cut into steps at the cached calls: one step that reads the cache    *)
(* (and, on a miss, takes the per-key compute lock) and one step in which  *)
(* the decorated function body returns and its result is stored.           *)
(*                                                                         *)
(* List positions are 1-based here; position p is the code's index p-1.    *)
(***************************************************************************)
EXTENDS Integers, Sequences, FiniteSets, TLC

\* ---------------------------------------------------------------- constants

\* @st.cache_data(ttl=3600), in seconds
TTL == 3600
\* len(article.text) > 200
MinContent == 200
\* st.sidebar.slider(min_value=1, max_value=20, value=5)
SliderMin == 1
SliderMax == 20
SliderDefault == 5

\* ------------------------------------------------------------------- bounds

\* The clock advances in steps of half the ttl, MaxTicks times.
MaxTicks == 2
Tick == TTL \div 2
\* Widget changes (selectbox, slider) and Summarize clicks handled in one
\* behaviour.
MaxMoves == 2
MaxClicks == 2

Sessions == {"s1", "s2"}

\* ------------------------------------------------------------------ strings

IsSpace(c) == c \in {" ", "\t", "\n"}

RECURSIVE LStrip(_)
LStrip(s) ==
    IF Len(s) > 0 /\ IsSpace(SubSeq(s, 1, 1)) THEN LStrip(SubSeq(s, 2, Len(s))) ELSE s

RECURSIVE RStrip(_)
RStrip(s) ==
    IF Len(s) > 0 /\ IsSpace(SubSeq(s, Len(s), Len(s)))
    THEN RStrip(SubSeq(s, 1, Len(s) - 1))
    ELSE s

\* link_tag.get_text(strip=True) of an anchor holding one text node
Strip(s) == RStrip(LStrip(s))

\* str.startswith
StartsWith(s, p) == Len(s) >= Len(p) /\ SubSeq(s, 1, Len(p)) = p

\* Option values: None is <<>>, a value v is <<v>>.
None == <<>>
Some(v) == <<v>>

\* ------------------------------------------------------------ listing page

\* A <span class="titleline"> element: whether it holds an anchor, the
\* anchor's text node, and its href attribute (hasHref = FALSE: no attribute).
Elem(anchor, text, hasHref, href) ==
    [anchor |-> anchor, text |-> text, hasHref |-> hasHref, href |-> href]

EAlpha == Elem(TRUE, "Alpha", TRUE, "https://a.example/1")
EBeta == Elem(TRUE, " Beta ", TRUE, "http://b.example/2")
EAsk == Elem(TRUE, "Ask HN", TRUE, "item?id=3")
EBlank == Elem(TRUE, "  ", TRUE, "https://c.example/4")
EBare == Elem(FALSE, "", FALSE, "")
ENoHref == Elem(TRUE, "Docs", FALSE, "")
EEmptyHref == Elem(TRUE, "Empty", TRUE, "")
EHttpd == Elem(TRUE, "Guide", TRUE, "httpd-notes.html")

\* if title and href and href.startswith('http')
Qualifies(e) ==
    /\ e.anchor
    /\ Strip(e.text) # ""
    /\ e.hasHref
    /\ e.href # ""
    /\ StartsWith(e.href, "http")

HeadlineRecord(e) == [title |-> Strip(e.text), link |-> e.href]

\* the for loop over soup.find_all('span', class_='titleline')
RECURSIVE ParseHeadlines(_)
ParseHeadlines(es) ==
    IF es = <<>>
    THEN <<>>
    ELSE (IF Qualifies(Head(es)) THEN <<HeadlineRecord(Head(es))>> ELSE <<>>)
             \o ParseHeadlines(Tail(es))

RaisesForStatus_Only5xx(status) == 500 <= status /\ status < 600

\* response.raise_for_status(): HTTPError for 4xx and 5xx
RaisesForStatus(status) == 400 <= status /\ status < 600

NoDiag == "none"
NetworkError == "Failed to fetch news headlines"
UnexpectedError == "An unexpected error occurred during headline scraping"

\* What requests.get met: a transport failure ("timeout", "connection"), or
\* a response ("response") with its status and the title-line elements of
\* its body; fault = k > 0: an exception other than RequestException is
\* raised while the k-th element is processed.
Response(kind, status, body, fault) ==
    [kind |-> kind, status |-> status, body |-> body, fault |-> fault]

\* The body of get_hacker_news_headlines: the list it returns and the
\* diagnostic it reports with st.error.
FetchHeadlines(resp) ==
    IF resp.kind # "response" \/ RaisesForStatus(resp.status)
    THEN [value |-> <<>>, diag |-> NetworkError]
    ELSE IF resp.fault > 0
    THEN [value |-> <<>>, diag |-> UnexpectedError]
    ELSE [value |-> ParseHeadlines(resp.body), diag |-> NoDiag]

\* ------------------------------------------------------------------ article

\* A text of n characters, all ch.
Text(ch, n) == [ch |-> ch, n |-> n]
TextLen(t) == t.n

\* What article.download(); article.parse() met: an exception (ok = FALSE)
\* or the extracted article.text.
Download(ok, text) == [ok |-> ok, text |-> text]

ExtractContent_NoGate(dl) ==
    IF ~dl.ok THEN None
    ELSE IF TextLen(dl.text) > 0 THEN Some(dl.text)
    ELSE None

ExtractContent_Inclusive(dl) ==
    IF ~dl.ok THEN None
    ELSE IF TextLen(dl.text) > 0 /\ TextLen(dl.text) >= MinContent THEN Some(dl.text)
    ELSE None

\* The body of get_article_content_newspaper.
ExtractContent(dl) ==
    IF ~dl.ok THEN None
    ELSE IF TextLen(dl.text) > 0 /\ TextLen(dl.text) > MinContent THEN Some(dl.text)
    ELSE None

\* ------------------------------------------------------------------ summary

ModelErrorMsg ==
    "Could not summarize this article due to an AI model error. The article might be too complex or too long for the model."
Placeholder == "Click 'Summarize' to get an AI-generated summary."
NoContentMsg ==
    "Could not retrieve meaningful article content for summarization (link may not be a standard article)."

\* _summarizer(text, ...)[0]['summary_text']: sampling is off, the output is
\* a function of the text.
ModelOutput(t) == "summary of " \o t.ch \o "*" \o ToString(t.n)

SummarizeError == "AI summarization failed with an internal model error"

SummarizeBody_ShortCircuit(t, modelOk) ==
    IF TextLen(t) <= MinContent
    THEN [value |-> "InsufficientContent", modelCalls |-> 0, diag |-> NoDiag]
    ELSE IF modelOk
    THEN [value |-> ModelOutput(t), modelCalls |-> 1, diag |-> NoDiag]
    ELSE [value |-> ModelErrorMsg, modelCalls |-> 1, diag |-> SummarizeError]

\* The body of summarize_text: the string it returns, the number of model
\* calls it makes and the diagnostic it reports; modelOk = FALSE: the model
\* call raises.
SummarizeBody(t, modelOk) ==
    IF modelOk
    THEN [value |-> ModelOutput(t), modelCalls |-> 1, diag |-> NoDiag]
    ELSE [value |-> ModelErrorMsg, modelCalls |-> 1, diag |-> SummarizeError]

\* f"**AI Summary:** {summary}"
AISummary(summary) == "**AI Summary:** " \o summary

\* ------------------------------------------------------------ orchestrator

Min(a, b) == IF a < b THEN a ELSE b

\* headlines[:num_articles_to_display]
TopHeadlines_DropLast(hl, n) == SubSeq(hl, 1, Min(n, Len(hl)) - 1)

TopHeadlines(hl, n) == SubSeq(hl, 1, Min(n, Len(hl)))

\* if headlines: display_headlines = headlines[:n]; else: nothing is listed
Displayed(hl, n) == IF hl # <<>> THEN TopHeadlines(hl, n) ELSE <<>>

WithDefaults_Reset(st, upto) ==
    [p \in 1..(IF upto > Len(st) THEN upto ELSE Len(st)) |->
        IF p <= upto THEN Placeholder ELSE st[p]]

\* if summary_key not in st.session_state: ... = placeholder, for the
\* positions 1..upto of the rendering loop
WithDefaults(st, upto) ==
    [p \in 1..(IF upto > Len(st) THEN upto ELSE Len(st)) |->
        IF p <= Len(st) THEN st[p] ELSE Placeholder]

\* The link each stored summary was made from, position by position; the
\* placeholder was made from none.
NoLink == ""
WithNoLinks(links, upto) ==
    [p \in 1..(IF upto > Len(links) THEN upto ELSE Len(links)) |->
        IF p <= Len(links) THEN links[p] ELSE NoLink]

\* ---------------------------------------------------------------- the cache

\* An entry is None or Some([value, ts, ...]); ttl = 3600 entries expire.
Valid_NoExpiry(entry, now) == entry # None

Valid_Inverted(entry, now) == entry # None /\ now - entry[1].ts >= TTL

Valid(entry, now) == entry # None /\ now - entry[1].ts < TTL

\* An entry of a cache without ttl (summarize_text) never expires.
Stored_Expiring(entry, now) == entry # None /\ now - entry[1].ts < TTL

Stored(entry, now) == entry # None

\* The per-key lock around the computation of a missing value: free when no
\* other session is computing that key.
ComputeLockFree_NoLock(holders) == TRUE

ComputeLockFree(holders) == holders = {}

\* ------------------------------------------------------------- environment

PageAB == <<EAlpha, EAsk, EBeta>>
PageBA == <<EBeta, EBlank, EAlpha>>
PageNone == <<EAsk, ENoHref, EBare>>

\* What the listing fetch may meet.
ListingResponses ==
    { Response("timeout", 0, <<>>, 0),
      Response("connection", 0, <<>>, 0),
      Response("response", 503, <<>>, 0),
      Response("response", 304, <<>>, 0),
      Response("response", 200, PageAB, 0),
      Response("response", 200, PageBA, 0),
      Response("response", 200, PageAB, 3),
      Response("response", 200, PageNone, 0) }

Range(f) == {f[i] : i \in DOMAIN f}

Links == UNION {{r.link : r \in Range(ParseHeadlines(resp.body))} : resp \in ListingResponses}

\* What an article download may meet.
ArticleDownloads ==
    { Download(FALSE, Text("a", 0)),
      Download(TRUE, Text("a", MinContent)),
      Download(TRUE, Text("a", MinContent + 1)),
      Download(TRUE, Text("b", MinContent + 1)) }

LongTexts == {dl.text : dl \in {d \in ArticleDownloads : ExtractContent(d) # None}}

Sources == {"Select a source", "Hacker News"}
SliderValues == {SliderMin, SliderDefault}

\* -------------------------------------------------------------------- state

VARIABLES
    clock,            \* seconds since the process started
    moves,            \* widget changes handled so far
    clicks,           \* Summarize clicks handled so far
    loads,            \* times pipeline("summarization") ran (load_summarizer_model)
    hcache,           \* cache of get_hacker_news_headlines
    acache,           \* cache of get_article_content_newspaper, by url
    scache,           \* cache of summarize_text, by text
    fetches,          \* HTTP GETs of the listing
    downloads,        \* article downloads, by url
    invocations,      \* model invocations, by text
    pc,               \* where each session's script run stands
    news_source,      \* the selectbox of each session
    num_articles,     \* the slider of each session
    clicked,          \* the position whose Summarize button was clicked, or 0
    article,          \* the headline being summarized (Option)
    article_content,  \* the extracted text being summarized (Option)
    session_state,    \* st.session_state["summary_<p-1>"], as a sequence
    display,          \* the headlines on the session's screen
    reported,         \* the headline diagnostic shown by the session's last run
    ret,              \* the last value a cached function returned
    served,           \* by url: the last return of get_article_content_newspaper
    summarizer_pipeline, \* the model instance each session's run holds, or 0
    used,             \* the model instances summarize_text has invoked
    summary_link,     \* by position: the link a stored summary was made from
    probe             \* a function called on its own: its argument and result

vars ==
    <<clock, moves, clicks, loads, hcache, acache, scache, fetches, downloads, invocations,
      pc, news_source, num_articles, clicked, article, article_content,
      session_state, display, reported, ret, served, summarizer_pipeline, used,
      summary_link, probe>>

caches == <<hcache, acache, scache, fetches, downloads, invocations, loads, used, probe>>
widgets == <<news_source, num_articles>>

NoRet == [fn |-> "none", session |-> "none", result |-> None, computed |-> FALSE]
Returned(fn, s, v, computed) == [fn |-> fn, session |-> s, result |-> v, computed |-> computed]

\* A return of get_article_content_newspaper(url): the value, the timestamp
\* of the entry it came from, the downloads of url so far, and whether this
\* call downloaded.
Served(v, ts, dls, computed) == [value |-> v, ts |-> ts, dls |-> dls, computed |-> computed]

\* A call of one function on its own: the function, its argument, whether
\* it has returned, and what it returned.
Pending(fn, arg) == [fn |-> fn, arg |-> arg, done |-> FALSE, out |-> None]
NoProbe == Pending("none", None)

\* The process has started: nothing is cached, no session has run yet.
InitProcess ==
    /\ clock = 0
    /\ moves = 0
    /\ clicks = 0
    /\ hcache = None
    /\ acache = [u \in Links |-> None]
    /\ scache = [t \in LongTexts |-> None]
    /\ fetches = 0
    /\ downloads = [u \in Links |-> 0]
    /\ invocations = [t \in LongTexts |-> 0]
    /\ num_articles = [s \in Sessions |-> SliderDefault]
    /\ clicked = [s \in Sessions |-> 0]
    /\ article = [s \in Sessions |-> None]
    /\ article_content = [s \in Sessions |-> None]
    /\ session_state = [s \in Sessions |-> <<>>]
    /\ display = [s \in Sessions |-> <<>>]
    /\ reported = [s \in Sessions |-> NoDiag]
    /\ ret = NoRet
    /\ served = [u \in Links |-> None]
    /\ used = {}
    /\ summary_link = [s \in Sessions |-> <<>>]

\* One browser session: its first run of main() starts.
Init ==
    /\ InitProcess
    /\ probe = NoProbe
    /\ loads = 0
    /\ summarizer_pipeline = [s \in Sessions |-> 0]
    /\ pc = [s \in Sessions |-> IF s = "s1" THEN "model_call" ELSE "closed"]
    /\ news_source = [s \in Sessions |-> "Select a source"]

\* Two browser sessions, the model loaded, both have just selected
\* "Hacker News" and their runs reach the headline fetch together.
InitTwo ==
    /\ InitProcess
    /\ probe = NoProbe
    /\ loads = 1
    /\ summarizer_pipeline = [s \in Sessions |-> 1]
    /\ pc = [s \in Sessions |-> "headlines_call"]
    /\ news_source = [s \in Sessions |-> "Hacker News"]

\* ------------------------------------------------------------ a script run

Computing(at) == {t \in Sessions : pc[t] = at}

\* main() from the value of load_summarizer_model() to the headline fetch;
\* c is the position of the clicked button in this run, or 0, and src the
\* selected news source, and instance the model load_summarizer_model()
\* returned (instances are numbered in the order they are loaded).
AfterModel(s, c, src, instance) ==
    /\ summarizer_pipeline' = [summarizer_pipeline EXCEPT ![s] = instance]
    /\ IF src = "Hacker News"
       THEN /\ pc' = [pc EXCEPT ![s] = "headlines_call"]
            /\ clicked' = [clicked EXCEPT ![s] = c]
            /\ UNCHANGED <<display, reported>>
       ELSE /\ pc' = [pc EXCEPT ![s] = "idle"]
            /\ clicked' = [clicked EXCEPT ![s] = 0]
            /\ display' = [display EXCEPT ![s] = <<>>]
            /\ reported' = [reported EXCEPT ![s] = NoDiag]

\* A run of main() starts.  Once the model is loaded, load_summarizer_model()
\* returns the one instance and touches no shared state, so the run goes on
\* to the headline fetch in the same step.
StartRun(s, c, src) ==
    IF loads > 0
    THEN AfterModel(s, c, src, loads)
    ELSE /\ pc' = [pc EXCEPT ![s] = "model_call"]
         /\ clicked' = [clicked EXCEPT ![s] = c]
         /\ summarizer_pipeline' = [summarizer_pipeline EXCEPT ![s] = 0]
         /\ UNCHANGED <<display, reported>>

\* st.rerun(): the script starts over, with no button clicked.
Rerun(s) ==
    /\ StartRun(s, 0, news_source[s])
    /\ article' = [article EXCEPT ![s] = None]
    /\ article_content' = [article_content EXCEPT ![s] = None]

\* ------------------------------------------------------------- user events

\* st.sidebar.selectbox("Choose a News Source", ...)
SelectSource(s, src) ==
    /\ pc[s] = "idle"
    /\ moves < MaxMoves
    /\ src # news_source[s]
    /\ news_source' = [news_source EXCEPT ![s] = src]
    /\ moves' = moves + 1
    /\ StartRun(s, 0, src)
    /\ UNCHANGED <<clock, clicks, caches, num_articles, article, article_content,
                   session_state, ret, served, summary_link>>

\* st.sidebar.slider("Number of articles to display", ...)
MoveSlider(s, n) ==
    /\ pc[s] = "idle"
    /\ moves < MaxMoves
    /\ n # num_articles[s]
    /\ num_articles' = [num_articles EXCEPT ![s] = n]
    /\ moves' = moves + 1
    /\ StartRun(s, 0, news_source[s])
    /\ UNCHANGED <<clock, clicks, caches, news_source, article, article_content,
                   session_state, ret, served, summary_link>>

\* st.button("Summarize", key=f"summarize_btn_{p-1}") of a displayed row
ClickSummarize(s, p) ==
    /\ pc[s] = "idle"
    /\ clicks < MaxClicks
    /\ p \in 1..Len(display[s])
    /\ clicks' = clicks + 1
    /\ StartRun(s, p, news_source[s])
    /\ UNCHANGED <<clock, moves, caches, widgets, article, article_content,
                   session_state, ret, served, summary_link>>

\* Time passes.
Advance ==
    /\ clock < MaxTicks * Tick
    /\ clock' = clock + Tick
    /\ UNCHANGED <<moves, clicks, caches, pc, widgets, clicked, article, article_content,
                   session_state, display, reported, ret, served, summarizer_pipeline,
                   summary_link>>

LoadModelCall_Uncached(s) ==
    /\ pc[s] = "model_call"
    /\ pc' = [pc EXCEPT ![s] = "model_compute"]
    /\ UNCHANGED <<display, clicked, reported, summarizer_pipeline>>
    /\ UNCHANGED <<clock, moves, clicks, caches, widgets, article, article_content,
                   session_state, ret, served, summary_link>>

\* load_summarizer_model(): the cached instance, or the start of the load.
LoadModelCall(s) ==
    /\ pc[s] = "model_call"
    /\ ComputeLockFree(Computing("model_compute"))
    /\ IF loads > 0
       THEN AfterModel(s, clicked[s], news_source[s], loads)
       ELSE /\ pc' = [pc EXCEPT ![s] = "model_compute"]
            /\ UNCHANGED <<display, clicked, reported, summarizer_pipeline>>
    /\ UNCHANGED <<clock, moves, clicks, caches, widgets, article, article_content,
                   session_state, ret, served, summary_link>>

\* pipeline("summarization", model=SUMMARIZER_MODEL) returns.
LoadModelDone(s) ==
    /\ pc[s] = "model_compute"
    /\ loads' = loads + 1
    /\ AfterModel(s, clicked[s], news_source[s], loads + 1)
    /\ UNCHANGED <<clock, moves, clicks, hcache, acache, scache, fetches, downloads,
                   invocations, probe, widgets, article, article_content,
                   session_state, ret, served, used, summary_link>>

\* main() from the value of get_hacker_news_headlines() to the clicked
\* button (or to the end of the run when no displayed button was clicked).
Render(s, hl) ==
    LET shown == Displayed(hl, num_articles[s])
        hit == clicked[s] \in 1..Len(shown)
        upto == IF hit THEN clicked[s] ELSE Len(shown)
    IN  /\ session_state' = [session_state EXCEPT ![s] = WithDefaults(@, upto)]
        /\ summary_link' = [summary_link EXCEPT ![s] = WithNoLinks(@, upto)]
        /\ IF hit
           THEN /\ article' = [article EXCEPT ![s] = Some(shown[clicked[s]])]
                /\ pc' = [pc EXCEPT ![s] = "article_call"]
                /\ UNCHANGED <<display, clicked>>
           ELSE /\ pc' = [pc EXCEPT ![s] = "idle"]
                /\ display' = [display EXCEPT ![s] = shown]
                /\ clicked' = [clicked EXCEPT ![s] = 0]
                /\ UNCHANGED article

\* get_hacker_news_headlines(): a stored list younger than the ttl (with the
\* diagnostic stored with it), or the start of the fetch.
HeadlinesCall(s) ==
    /\ pc[s] = "headlines_call"
    /\ ComputeLockFree(Computing("headlines_compute"))
    /\ IF Valid(hcache, clock)
       THEN /\ Render(s, hcache[1].value)
            /\ reported' = [reported EXCEPT ![s] = hcache[1].diag]
            /\ ret' = Returned("headlines", s, hcache[1].value, FALSE)
       ELSE /\ pc' = [pc EXCEPT ![s] = "headlines_compute"]
            /\ UNCHANGED <<session_state, article, display, clicked, reported, ret,
                           summary_link>>
    /\ UNCHANGED <<clock, moves, clicks, caches, widgets, article_content, served,
                   summarizer_pipeline>>

HeadlinesDone_FailureNotStored(s, resp) ==
    /\ pc[s] = "headlines_compute"
    /\ LET r == FetchHeadlines(resp)
       IN  /\ hcache' = (IF r.diag = NoDiag
                         THEN Some([value |-> r.value, ts |-> clock, diag |-> r.diag])
                         ELSE hcache)
           /\ Render(s, r.value)
           /\ reported' = [reported EXCEPT ![s] = r.diag]
           /\ ret' = Returned("headlines", s, r.value, TRUE)
    /\ fetches' = fetches + 1
    /\ UNCHANGED <<clock, moves, clicks, acache, scache, downloads, invocations, loads,
                   probe, widgets, article_content, served, summarizer_pipeline, used>>

\* The body of get_hacker_news_headlines returns; the list is stored.
HeadlinesDone(s, resp) ==
    /\ pc[s] = "headlines_compute"
    /\ LET r == FetchHeadlines(resp)
       IN  /\ hcache' = Some([value |-> r.value, ts |-> clock, diag |-> r.diag])
           /\ Render(s, r.value)
           /\ reported' = [reported EXCEPT ![s] = r.diag]
           /\ ret' = Returned("headlines", s, r.value, TRUE)
    /\ fetches' = fetches + 1
    /\ UNCHANGED <<clock, moves, clicks, acache, scache, downloads, invocations, loads,
                   probe, widgets, article_content, served, summarizer_pipeline, used>>

AfterArticle_SameMessage(s, content) ==
    IF content # None
    THEN /\ article_content' = [article_content EXCEPT ![s] = content]
         /\ pc' = [pc EXCEPT ![s] = "summary_call"]
         /\ UNCHANGED <<session_state, clicked, article, display, reported,
                        summarizer_pipeline, summary_link>>
    ELSE /\ session_state' = [session_state EXCEPT ![s][clicked[s]] = AISummary(ModelErrorMsg)]
         /\ summary_link' = [summary_link EXCEPT ![s][clicked[s]] = article[s][1].link]
         /\ Rerun(s)

\* main() from the value of get_article_content_newspaper(): summarize it,
\* or store the no-content message and rerun.
AfterArticle(s, content) ==
    IF content # None
    THEN /\ article_content' = [article_content EXCEPT ![s] = content]
         /\ pc' = [pc EXCEPT ![s] = "summary_call"]
         /\ UNCHANGED <<session_state, clicked, article, display, reported,
                        summarizer_pipeline, summary_link>>
    ELSE /\ session_state' = [session_state EXCEPT ![s][clicked[s]] = NoContentMsg]
         /\ summary_link' = [summary_link EXCEPT ![s][clicked[s]] = article[s][1].link]
         /\ Rerun(s)

\* get_article_content_newspaper(url): a stored value younger than the ttl,
\* or the start of the download.
ArticleCall(s) ==
    /\ pc[s] = "article_call"
    /\ LET url == article[s][1].link
       IN  /\ ComputeLockFree({t \in Computing("article_compute") : article[t][1].link = url})
           /\ IF Valid(acache[url], clock)
              THEN /\ AfterArticle(s, acache[url][1].value)
                   /\ ret' = Returned("article", s, acache[url][1].value, FALSE)
                   /\ served' = [served EXCEPT ![url] =
                          Some(Served(acache[url][1].value, acache[url][1].ts,
                                      downloads[url], FALSE))]
              ELSE /\ pc' = [pc EXCEPT ![s] = "article_compute"]
                   /\ UNCHANGED <<session_state, clicked, article, article_content,
                                  display, reported, ret, served, summarizer_pipeline,
                                  summary_link>>
    /\ UNCHANGED <<clock, moves, clicks, caches, widgets>>

\* The body of get_article_content_newspaper returns; the value is stored.
ArticleDone(s, dl) ==
    /\ pc[s] = "article_compute"
    /\ LET url == article[s][1].link
           content == ExtractContent(dl)
       IN  /\ acache' = [acache EXCEPT ![url] = Some([value |-> content, ts |-> clock])]
           /\ downloads' = [downloads EXCEPT ![url] = @ + 1]
           /\ AfterArticle(s, content)
           /\ ret' = Returned("article", s, content, TRUE)
           /\ served' = [served EXCEPT ![url] =
                  Some(Served(content, clock, downloads[url] + 1, TRUE))]
    /\ UNCHANGED <<clock, moves, clicks, hcache, scache, fetches, invocations, loads,
                   probe, widgets, used>>

\* st.session_state[summary_key] = f"**AI Summary:** {summary}"; st.rerun()
AfterSummary(s, summary) ==
    /\ session_state' = [session_state EXCEPT ![s][clicked[s]] = AISummary(summary)]
    /\ summary_link' = [summary_link EXCEPT ![s][clicked[s]] = article[s][1].link]
    /\ Rerun(s)

\* summarize_text(text, _summarizer): the stored summary of this text (the
\* entries have no ttl), or the start of the model call.
SummaryCall(s) ==
    /\ pc[s] = "summary_call"
    /\ LET text == article_content[s][1]
       IN  /\ ComputeLockFree({t \in Computing("summary_compute") : article_content[t][1] = text})
           /\ IF Stored(scache[text], clock)
              THEN /\ AfterSummary(s, scache[text][1].value)
                   /\ ret' = Returned("summary", s, scache[text][1].value, FALSE)
                   /\ UNCHANGED served
              ELSE /\ pc' = [pc EXCEPT ![s] = "summary_compute"]
                   /\ UNCHANGED <<session_state, clicked, article, article_content,
                                  display, reported, ret, served, summarizer_pipeline,
                                  summary_link>>
    /\ UNCHANGED <<clock, moves, clicks, caches, widgets>>

SummaryDone_FailureNotStored(s, modelOk) ==
    /\ pc[s] = "summary_compute"
    /\ LET text == article_content[s][1]
           summary == SummarizeBody(text, modelOk)
       IN  /\ scache' = (IF modelOk
                         THEN [scache EXCEPT ![text] = Some([value |-> summary.value, ts |-> clock])]
                         ELSE scache)
           /\ invocations' = [invocations EXCEPT ![text] = @ + summary.modelCalls]
           /\ used' = (IF summary.modelCalls > 0
                       THEN used \cup {summarizer_pipeline[s]}
                       ELSE used)
           /\ AfterSummary(s, summary.value)
           /\ ret' = Returned("summary", s, summary.value, TRUE)
    /\ UNCHANGED <<clock, moves, clicks, hcache, acache, fetches, downloads, loads,
                   probe, widgets, served>>

SummaryDone_Raises(s, modelOk) ==
    /\ pc[s] = "summary_compute"
    /\ IF modelOk
       THEN LET text == article_content[s][1]
                summary == SummarizeBody(text, modelOk)
            IN  /\ scache' = [scache EXCEPT ![text] = Some([value |-> summary.value, ts |-> clock])]
                /\ invocations' = [invocations EXCEPT ![text] = @ + summary.modelCalls]
                /\ used' = used \cup {summarizer_pipeline[s]}
                /\ AfterSummary(s, summary.value)
                /\ ret' = Returned("summary", s, summary.value, TRUE)
       ELSE /\ pc' = [pc EXCEPT ![s] = "crashed"]
            /\ UNCHANGED <<scache, invocations, used, session_state, summary_link, clicked,
                           article, article_content, display, reported, ret,
                           summarizer_pipeline>>
    /\ UNCHANGED <<clock, moves, clicks, hcache, acache, fetches, downloads, loads,
                   probe, widgets, served>>

\* The body of summarize_text returns; the string is stored.
SummaryDone(s, modelOk) ==
    /\ pc[s] = "summary_compute"
    /\ LET text == article_content[s][1]
           summary == SummarizeBody(text, modelOk)
       IN  /\ scache' = [scache EXCEPT ![text] = Some([value |-> summary.value, ts |-> clock])]
           /\ invocations' = [invocations EXCEPT ![text] = @ + summary.modelCalls]
           /\ used' = (IF summary.modelCalls > 0
                       THEN used \cup {summarizer_pipeline[s]}
                       ELSE used)
           /\ AfterSummary(s, summary.value)
           /\ ret' = Returned("summary", s, summary.value, TRUE)
    /\ UNCHANGED <<clock, moves, clicks, hcache, acache, fetches, downloads, loads,
                   probe, widgets, served>>

Next ==
    \/ Advance
    \/ \E s \in Sessions, src \in Sources : SelectSource(s, src)
    \/ \E s \in Sessions, n \in SliderValues : MoveSlider(s, n)
    \/ \E s \in Sessions, p \in 1..SliderMax : ClickSummarize(s, p)
    \/ \E s \in Sessions : LoadModelCall(s)
    \/ \E s \in Sessions : LoadModelDone(s)
    \/ \E s \in Sessions : HeadlinesCall(s)
    \/ \E s \in Sessions, resp \in ListingResponses : HeadlinesDone(s, resp)
    \/ \E s \in Sessions : ArticleCall(s)
    \/ \E s \in Sessions, dl \in ArticleDownloads : ArticleDone(s, dl)
    \/ \E s \in Sessions : SummaryCall(s)
    \/ \E s \in Sessions, modelOk \in BOOLEAN : SummaryDone(s, modelOk)

Spec == Init /\ [][Next]_vars

\* A step of the script run of session s.
ScriptStep(s) ==
    \/ LoadModelCall(s)
    \/ LoadModelDone(s)
    \/ HeadlinesCall(s)
    \/ \E resp \in ListingResponses : HeadlinesDone(s, resp)
    \/ ArticleCall(s)
    \/ \E dl \in ArticleDownloads : ArticleDone(s, dl)
    \/ SummaryCall(s)
    \/ \E modelOk \in BOOLEAN : SummaryDone(s, modelOk)

\* The script thread of a run is scheduled until the run ends: the listing
\* fetch has a 10 second timeout, and the download and the model call
\* return or raise.  Every step of a run moves pc.
SpecLive == Spec /\ \A s \in Sessions : WF_pc(ScriptStep(s))

\* Two concurrent sessions that click Summarize while time passes.
NextTwo ==
    \/ Advance
    \/ \E s \in Sessions, p \in 1..SliderMax : ClickSummarize(s, p)
    \/ \E s \in Sessions : HeadlinesCall(s)
    \/ \E s \in Sessions, resp \in ListingResponses : HeadlinesDone(s, resp)
    \/ \E s \in Sessions : ArticleCall(s)
    \/ \E s \in Sessions, dl \in ArticleDownloads : ArticleDone(s, dl)
    \/ \E s \in Sessions : SummaryCall(s)
    \/ \E s \in Sessions, modelOk \in BOOLEAN : SummaryDone(s, modelOk)

SpecTwo == InitTwo /\ [][NextTwo]_vars

\* Two browser sessions connect to a fresh process together: both first
\* runs reach load_summarizer_model() before the model is loaded.
InitLoad ==
    /\ InitProcess
    /\ probe = NoProbe
    /\ loads = 0
    /\ summarizer_pipeline = [s \in Sessions |-> 0]
    /\ pc = [s \in Sessions |-> "model_call"]
    /\ news_source = [s \in Sessions |-> "Select a source"]

\* The two sessions load pages and summarize; no entry expires meanwhile.
NextLoad ==
    \/ \E s \in Sessions, src \in Sources : SelectSource(s, src)
    \/ \E s \in Sessions, n \in SliderValues : MoveSlider(s, n)
    \/ \E s \in Sessions, p \in 1..SliderMax : ClickSummarize(s, p)
    \/ \E s \in Sessions : LoadModelCall(s)
    \/ \E s \in Sessions : LoadModelDone(s)
    \/ \E s \in Sessions : HeadlinesCall(s)
    \/ \E s \in Sessions, resp \in ListingResponses : HeadlinesDone(s, resp)
    \/ \E s \in Sessions : ArticleCall(s)
    \/ \E s \in Sessions, dl \in ArticleDownloads : ArticleDone(s, dl)
    \/ \E s \in Sessions : SummaryCall(s)
    \/ \E s \in Sessions, modelOk \in BOOLEAN : SummaryDone(s, modelOk)

SpecLoad == InitLoad /\ [][NextLoad]_vars

\* ------------------------------------------------------------------- claims

\* An entry exists and was stored less than 3600 seconds before now.
Young(entry, now) == entry # None /\ now - entry[1].ts < 3600

\* Session s makes its call of the cached function in this step.
Calls(s, fn) == pc[s] = fn \o "_call" /\ pc'[s] # pc[s]
\* The body of the cached function returns to session s in this step.
Computes(s, fn) == pc[s] = fn \o "_compute" /\ pc'[s] # pc[s]
\* The cached function returns to session s in this step.
Returns(s, fn) == (Calls(s, fn) /\ pc'[s] # fn \o "_compute") \/ Computes(s, fn)

C1_Headlines ==
    \A s \in Sessions :
        /\ Calls(s, "headlines") /\ Young(hcache, clock) =>
              /\ ret' = Returned("headlines", s, hcache[1].value, FALSE)
              /\ hcache' = hcache
              /\ fetches' = fetches
        /\ Calls(s, "headlines") /\ ~Young(hcache, clock) =>
              /\ pc'[s] = "headlines_compute"
              /\ fetches' = fetches
        /\ Computes(s, "headlines") =>
              /\ fetches' = fetches + 1
              /\ hcache' # None
              /\ hcache'[1].ts = clock
              /\ ret' = Returned("headlines", s, hcache'[1].value, TRUE)
        /\ Returns(s, "headlines") =>
              /\ Young(hcache', clock')
              /\ ret'.result = hcache'[1].value

C1_Article ==
    \A s \in Sessions :
        LET url == article[s][1].link
        IN  /\ Calls(s, "article") /\ Young(acache[url], clock) =>
                  /\ ret' = Returned("article", s, acache[url][1].value, FALSE)
                  /\ acache' = acache
                  /\ downloads' = downloads
            /\ Calls(s, "article") /\ ~Young(acache[url], clock) =>
                  /\ pc'[s] = "article_compute"
                  /\ downloads' = downloads
            /\ Computes(s, "article") =>
                  /\ downloads' = [downloads EXCEPT ![url] = @ + 1]
                  /\ acache'[url] # None
                  /\ acache'[url][1].ts = clock
                  /\ ret' = Returned("article", s, acache'[url][1].value, TRUE)
            /\ Returns(s, "article") =>
                  /\ Young(acache'[url], clock')
                  /\ ret'.result = acache'[url][1].value

C1_OnlyComputing ==
    /\ fetches' # fetches => \E s \in Sessions : Computes(s, "headlines")
    /\ downloads' # downloads => \E s \in Sessions : Computes(s, "article")

\* C1: the headline fetch and extract(url) are memoized for 3600 seconds: a
\* call made while the key's entry is younger than 3600 seconds returns the
\* stored value and does no network computation; a call made when the entry
\* is absent or at least 3600 seconds old runs the computation once and
\* stores its result with the current time; every value returned was stored
\* less than 3600 seconds before.
C1_TimedMemo == [][C1_Headlines /\ C1_Article /\ C1_OnlyComputing]_vars

\* A listing was fetched again after the first one expired, and a later
\* headline call was served from the cache.
C1_Witness ==
    /\ fetches = 2
    /\ \E u \in Links : downloads[u] = 2
    /\ ret.fn = "headlines"
    /\ ~ret.computed

\* C2: two calls of extract(url) served within one TTL window (by the
\* same cache entry) return the identical Option, and at most one download
\* of url happens for the two calls together.
C2_ExtractIdempotent ==
    [][\A u \in Links :
          (/\ served[u] # None
           /\ served'[u] # served[u]
           /\ served'[u][1].ts = served[u][1].ts)
          => /\ served'[u][1].value = served[u][1].value
             /\ served'[u][1].dls = served[u][1].dls
             /\ ~served'[u][1].computed]_vars

\* extract(url) returned twice within one window, the second time from the
\* cache, after one download.
C2_Witness ==
    \E u \in Links :
        /\ served[u] # None
        /\ ~served[u][1].computed
        /\ served[u][1].dls = 1
        /\ clicks = 2

\* C3: the summary cache is keyed by the text alone and does not expire:
\* whenever summarize_text(text) returns, whatever the headline and however
\* late, the model has been invoked exactly once for text in the process.
C3_OneInvocationPerText ==
    [][\A s \in Sessions :
          Returns(s, "summary") => invocations'[article_content[s][1]] = 1]_vars

\* Two rows with different links show the summary of the same text; the
\* model summarized it at time 0 and the second article was downloaded 3600
\* seconds later; the model ran once.
C3_Witness ==
    \E s \in Sessions, t \in LongTexts :
        /\ Len(display[s]) = 2
        /\ display[s][1].link # display[s][2].link
        /\ Len(session_state[s]) = 2
        /\ session_state[s][1] = AISummary(ModelOutput(t))
        /\ session_state[s][2] = AISummary(ModelOutput(t))
        /\ scache[t] # None
        /\ scache[t][1].ts = 0
        /\ acache[display[s][2].link] # None
        /\ acache[display[s][2].link][1].ts = TTL
        /\ downloads[display[s][2].link] = 1
        /\ invocations[t] = 1

\* The key of the cached call session s is making or computing.
KeyOf(s, fn) ==
    IF fn = "headlines" THEN "listing"
    ELSE IF fn = "article" THEN article[s][1].link
    ELSE article_content[s][1].ch \o "*" \o ToString(article_content[s][1].n)

\* The sessions whose computation of the key of s is in flight.
InFlight(s, fn) ==
    {t \in Sessions : pc[t] = fn \o "_compute" /\ KeyOf(t, fn) = KeyOf(s, fn)}

\* The entry of the key of s.
EntryOf(s, fn) ==
    IF fn = "headlines" THEN hcache
    ELSE IF fn = "article" THEN acache[article[s][1].link]
    ELSE scache[article_content[s][1]]

\* The computations of the three functions so far.
Work == <<fetches, downloads, invocations>>

C4_Step(fn) ==
    \A s \in Sessions :
        /\ pc'[s] = fn \o "_compute" => InFlight(s, fn)' = {s}
        /\ pc[s] = fn \o "_call" /\ InFlight(s, fn) # {} =>
              /\ pc'[s] = pc[s]
              /\ \A t \in InFlight(s, fn) :
                    Computes(t, fn) =>
                        /\ EntryOf(s, fn)' # None
                        /\ EntryOf(s, fn)'[1].ts = clock
                        /\ EntryOf(s, fn)'[1].value = ret'.result
                        /\ ret'.session = t
                        /\ ret'.computed
        /\ (/\ Calls(s, fn)
            /\ EntryOf(s, fn) # None
            /\ EntryOf(s, fn)[1].ts = clock) =>
              /\ ret' = Returned(fn, s, EntryOf(s, fn)[1].value, FALSE)
              /\ Work' = Work

Recorded(s) == session_state'[s][clicked[s]]

C10_Step(s) ==
    /\ pc'[s] = "summary_call" /\ pc[s] # "summary_call" =>
          /\ Returns(s, "article")
          /\ ret'.result # None
          /\ article_content'[s] = ret'.result
    /\ pc'[s] = "summary_compute" => pc[s] \in {"summary_call", "summary_compute"}
    /\ Returns(s, "article") /\ ret'.result = None =>
          /\ Recorded(s) =
                "Could not retrieve meaningful article content for summarization (link may not be a standard article)."
          /\ invocations' = invocations
          /\ scache' = scache
          /\ pc'[s] \notin {"summary_call", "summary_compute"}
    /\ Computes(s, "summary") /\ ret'.result = ModelErrorMsg =>
          /\ Recorded(s) = "**AI Summary:** " \o ModelErrorMsg
          /\ Recorded(s) # NoContentMsg

\* C10: summarizing a headline extracts the article before it summarizes:
\* summarize_text is reached only from a return of extract with Some(text),
\* on that text; when extract returns None the row records the 'could not
\* retrieve meaningful article content' message and the model is not
\* invoked; a model failure records a different string.
C10_ExtractThenSummarize == [][\A s \in Sessions : C10_Step(s)]_vars

\* One row shows the no-content message and the other the model-failure
\* message, and the model ran once in all.
C10_Witness ==
    \E s \in Sessions, t \in LongTexts :
        /\ Len(session_state[s]) = 2
        /\ session_state[s][1] = NoContentMsg
        /\ session_state[s][2] = AISummary(ModelErrorMsg)
        /\ invocations[t] = 1
        /\ \A x \in LongTexts \ {t} : invocations[x] = 0

\* The outcome a stored row presents to the user: a row that opens with
\* the "**AI Summary:** " label is presented as a summary.
SummaryLabel == "**AI Summary:** "
Outcome(row) ==
    IF row = Placeholder THEN "Unset"
    ELSE IF row = NoContentMsg THEN "InsufficientContent"
    ELSE IF StartsWith(row, SummaryLabel) THEN "Summary"
    ELSE "ModelError"

\* What a row presents after its label.
Labelled(row) == SubSeq(row, Len(SummaryLabel) + 1, Len(row))

\* C11: the row recorded for a headline identifies the outcome: a model
\* invocation fault is recorded as ModelError, so no row presented as a
\* Summary carries the result of a faulted model call.
C11_FaultNotSummary ==
    \A s \in Sessions :
        \A p \in 1..Len(session_state[s]) :
            Outcome(session_state[s][p]) = "Summary" =>
                Labelled(session_state[s][p]) # ModelErrorMsg

\* The run of session s that handles a click ends in this step.
ClickHandled(s) == clicked[s] > 0 /\ clicked'[s] = 0

\* C12 as stated: whatever fails, after a Summarize on position i the
\* state of i holds a summary or a failure message, not the placeholder.
C12_AlwaysRecorded ==
    [][\A s \in Sessions :
          ClickHandled(s) =>
              /\ clicked[s] \in 1..Len(session_state'[s])
              /\ Outcome(session_state'[s][clicked[s]]) # "Unset"]_vars

\* The click on position p is dropped: the list fetched in the click's run
\* has no position p.
Dropped(s) ==
    /\ Returns(s, "headlines")
    /\ Len(ret'.result) < clicked[s] \/ num_articles[s] < clicked[s]
    /\ pc'[s] = "idle"
    /\ \A p \in 1..Len(session_state[s]) : session_state'[s][p] = session_state[s][p]

C12_Step(s) ==
    /\ pc'[s] \in {"closed", "idle", "model_call", "model_compute", "headlines_call",
                   "headlines_compute", "article_call", "article_compute",
                   "summary_call", "summary_compute"}
    /\ ClickHandled(s) =>
          \/ /\ Returns(s, "article")
             /\ session_state'[s][clicked[s]] = NoContentMsg
          \/ /\ Returns(s, "summary")
             /\ session_state'[s][clicked[s]] \in
                    {AISummary(ModelErrorMsg), AISummary(ModelOutput(article_content[s][1]))}
          \/ Dropped(s)

\* C12 amended: no listing, download or model fault ends the script: every
\* run that starts reaches its end, and a run that handles a Summarize on
\* position i either stores a summary or a failure message for i, or, when
\* the list fetched in that run has no position i (the entry had expired
\* and the new fetch failed or came back shorter), drops the click and
\* leaves every stored summary as it was.
C12_NoFaultTerminates ==
    /\ \A s \in Sessions : (pc[s] \notin {"idle", "closed"}) ~> (pc[s] = "idle")
    /\ [][\A s \in Sessions : C12_Step(s)]_vars

\* The session is idle after a download fault on row 1, a model fault on
\* row 2 and a failed re-fetch of the expired listing.
C12_Witness ==
    \E s \in Sessions :
        /\ pc[s] = "idle"
        /\ reported[s] = NetworkError
        /\ fetches = 2
        /\ session_state[s] = <<NoContentMsg, AISummary(ModelErrorMsg)>>

C14_OnlySummarizeWrites ==
    [][\A s \in Sessions :
          /\ Len(session_state'[s]) >= Len(session_state[s])
          /\ \A p \in 1..Len(session_state'[s]) :
                IF p <= Len(session_state[s])
                THEN session_state'[s][p] # session_state[s][p] =>
                         /\ clicked[s] = p
                         /\ Returns(s, "article") \/ Returns(s, "summary")
                ELSE session_state'[s][p] = "Click 'Summarize' to get an AI-generated summary."]_vars

\* Row 2 was summarized; then the listing expired and was fetched again and
\* the slider was moved to 1: row 2 is no longer listed and its summary is
\* still stored.
C14_Witness ==
    \E s \in Sessions :
        /\ pc[s] = "idle"
        /\ fetches = 2
        /\ num_articles[s] = 1
        /\ Len(display[s]) = 1
        /\ Len(session_state[s]) = 2
        /\ session_state[s][1] = Placeholder
        /\ Outcome(session_state[s][2]) = "Summary"

\* C15: on a rendered page, a row that shows more than the placeholder
\* shows what was made from the link of the headline listed in that row,
\* also after the listing expired and was fetched again.
C15_SummaryOfListedLink ==
    \A s \in Sessions :
        pc[s] = "idle" =>
            \A p \in 1..Len(display[s]) :
                session_state[s][p] # Placeholder =>
                    summary_link[s][p] = display[s][p].link

\* C16: the model is only invoked with a text longer than 200 characters:
\* a run is inside summarize_text only with a text of 201 characters or
\* more that extract returned, and every text the model was invoked with is
\* that long.
C16_ModelInputLong ==
    /\ \A s \in Sessions :
          pc[s] \in {"summary_call", "summary_compute"} =>
              /\ article_content[s] # None
              /\ article_content[s][1].n >= 201
              /\ acache[article[s][1].link] # None
    /\ \A t \in DOMAIN invocations : invocations[t] > 0 => t.n >= 201

\* The model has been invoked with a text of exactly 201 characters, and
\* another Summarize ended without content and without the model.
C16_Witness ==
    \E s \in Sessions, t \in DOMAIN invocations :
        /\ t.n = 201
        /\ invocations[t] = 1
        /\ \E p \in 1..Len(session_state[s]) : session_state[s][p] = NoContentMsg
        /\ \A x \in DOMAIN invocations \ {t} : invocations[x] = 0

\* The stored listing is the result of a failed fetch.
FailedListing(entry) == entry # None /\ entry[1].diag # "none"

\* C17: a failed listing fetch is memoized like a success: the fetch that
\* fails stores [] with the time of the fetch; every headline request made
\* less than 3600 seconds after it returns [] and the stored diagnostic
\* without another HTTP request; a new fetch starts only when no entry is
\* stored or the stored one is 3600 seconds old.
C17_FailureMemoized ==
    [][\A s \in Sessions :
          /\ Computes(s, "headlines") /\ reported'[s] # "none" =>
                /\ FailedListing(hcache')
                /\ hcache'[1].value = <<>>
                /\ hcache'[1].ts = clock
                /\ ret'.result = <<>>
          /\ (/\ Calls(s, "headlines")
              /\ FailedListing(hcache)
              /\ clock - hcache[1].ts < 3600) =>
                /\ ret' = Returned("headlines", s, <<>>, FALSE)
                /\ reported'[s] = hcache[1].diag
                /\ display'[s] = <<>>
                /\ fetches' = fetches
                /\ hcache' = hcache
          /\ pc'[s] = "headlines_compute" /\ pc[s] # "headlines_compute" =>
                hcache = None \/ clock - hcache[1].ts >= 3600]_vars

\* The one fetch failed at time 0; 1800 seconds later a headline request
\* was answered [] from the cache, with the diagnostic.
C17_Witness ==
    \E s \in Sessions :
        /\ fetches = 1
        /\ FailedListing(hcache)
        /\ hcache[1].ts = 0
        /\ clock = Tick
        /\ ret = Returned("headlines", s, <<>>, FALSE)
        /\ reported[s] = hcache[1].diag
        /\ pc[s] = "idle"

\* The entry holds the model-error message.
FailedSummary(entry) ==
    /\ entry # None
    /\ entry[1].value =
          "Could not summarize this article due to an AI model error. The article might be too complex or too long for the model."

\* C18: a model failure is memoized for good, per text: the call in which
\* the model raises stores the model-error message under the text; from
\* then on the entry never changes, and every summarize_text of that text,
\* however late, returns the message without invoking the model and the
\* row shows it again.
C18_ModelFailureMemoized ==
    [][/\ \A s \in Sessions :
             /\ Computes(s, "summary") /\ ret'.result = ModelErrorMsg =>
                   FailedSummary(scache'[article_content[s][1]])
             /\ Calls(s, "summary") /\ FailedSummary(scache[article_content[s][1]]) =>
                   /\ ret' = Returned("summary", s, ModelErrorMsg, FALSE)
                   /\ session_state'[s][clicked[s]] = AISummary(ModelErrorMsg)
                   /\ invocations' = invocations
       /\ \A t \in DOMAIN scache :
             FailedSummary(scache[t]) =>
                 scache'[t] = scache[t] /\ invocations'[t] = invocations[t]]_vars

\* The model failed on a text at time 0; 3600 seconds later a second
\* Summarize on the same text was answered with the stored message, and the
\* model had run once.
C18_Witness ==
    \E s \in Sessions, t \in DOMAIN scache :
        /\ FailedSummary(scache[t])
        /\ scache[t][1].ts = 0
        /\ clock = TTL
        /\ clicks = 2
        /\ ret = Returned("summary", s, ModelErrorMsg, FALSE)
        /\ invocations[t] = 1

\* ------------------------------------------------- the functions on their own

\* Listing pages of up to MaxElems title-line elements.
MaxElems == 2
Elems == {EAlpha, EBeta, EAsk, EBlank, EBare, ENoHref, EEmptyHref, EHttpd}

RECURSIVE SeqsUpTo(_, _)
SeqsUpTo(S, n) ==
    IF n = 0
    THEN {<<>>}
    ELSE LET shorter == SeqsUpTo(S, n - 1)
         IN  shorter \cup {Append(q, e) : q \in {x \in shorter : Len(x) = n - 1}, e \in S}

Pages == SeqsUpTo(Elems, MaxElems)
Statuses == {200, 204, 304, 404, 503}

Responses ==
    {Response("timeout", 0, <<>>, 0), Response("connection", 0, <<>>, 0)}
        \cup UNION {{Response("response", st, body, k) : st \in Statuses, k \in 0..Len(body)} :
                       body \in Pages}

Texts == {Text(ch, n) : ch \in {"a", "b"},
                        n \in {0, 50, MinContent - 1, MinContent, MinContent + 1, 600}}

\* The process has started and no session is connected; one function is
\* about to be called on an argument.
InitFn ==
    /\ InitProcess
    /\ loads = 0
    /\ summarizer_pipeline = [s \in Sessions |-> 0]
    /\ pc = [s \in Sessions |-> "closed"]
    /\ news_source = [s \in Sessions |-> "Select a source"]
    /\ probe \in {Pending("headlines", [resp |-> resp, n |-> n]) :
                     resp \in Responses, n \in SliderMin..SliderMax}
                 \cup {Pending("extract", Download(ok, t)) : ok \in BOOLEAN, t \in Texts}
                 \cup {Pending("summarize", [text |-> t, modelOk |-> ok]) :
                          t \in Texts, ok \in BOOLEAN}

\* headlines = get_hacker_news_headlines() with an empty cache, and the
\* rows main() lists for the slider value n.
CallHeadlines ==
    /\ probe.fn = "headlines"
    /\ ~probe.done
    /\ probe' = [probe EXCEPT !.done = TRUE,
                              !.out = [fetched |-> FetchHeadlines(probe.arg.resp),
                                       top |-> Displayed(FetchHeadlines(probe.arg.resp).value,
                                                         probe.arg.n)]]
    /\ UNCHANGED <<clock, moves, clicks, hcache, acache, scache, fetches, downloads,
                   invocations, loads, pc, widgets, clicked, article, article_content,
                   session_state, display, reported, ret, served, summarizer_pipeline,
                   used, summary_link>>

\* get_article_content_newspaper(url) with an empty cache.
CallExtract ==
    /\ probe.fn = "extract"
    /\ ~probe.done
    /\ probe' = [probe EXCEPT !.done = TRUE, !.out = ExtractContent(probe.arg)]
    /\ UNCHANGED <<clock, moves, clicks, hcache, acache, scache, fetches, downloads,
                   invocations, loads, pc, widgets, clicked, article, article_content,
                   session_state, display, reported, ret, served, summarizer_pipeline,
                   used, summary_link>>

\* summarize_text(text, summarizer) with an empty cache.
CallSummarize ==
    /\ probe.fn = "summarize"
    /\ ~probe.done
    /\ probe' = [probe EXCEPT !.done = TRUE,
                              !.out = SummarizeBody(probe.arg.text, probe.arg.modelOk)]
    /\ UNCHANGED <<clock, moves, clicks, hcache, acache, scache, fetches, downloads,
                   invocations, loads, pc, widgets, clicked, article, article_content,
                   session_state, display, reported, ret, served, summarizer_pipeline,
                   used, summary_link>>

NextFn ==
    \/ CallHeadlines
    \/ CallExtract
    \/ CallSummarize

SpecFn == InitFn /\ [][NextFn]_vars

\* ------------------------------------------------ claims about the functions

\* A call of fn on its own has returned.
Done(fn) == probe.fn = fn /\ probe.done

\* C5: extract returns None whenever the extracted text has 200 characters
\* or fewer (exactly 200 and the empty text included) and Some(text), the
\* text unmodified, whenever it has 201 characters or more.
C5_ContentGate ==
    Done("extract") /\ probe.arg.ok =>
        IF probe.arg.text.n <= 200
        THEN probe.out = None
        ELSE probe.out = <<probe.arg.text>>

\* A text of exactly 200 characters was extracted and extract returned None.
C5_Witness ==
    /\ Done("extract")
    /\ probe.arg.ok
    /\ probe.arg.text.n = 200
    /\ probe.out = None

\* C6: every record fetchHeadlines emits has a non-empty title and a link
\* that begins with "http://" or "https://"; an element whose first anchor
\* lacks either is skipped, and skipping raises no diagnostic.
C6_HttpSchemeOnly ==
    Done("headlines") =>
        LET hl == probe.out.fetched.value
        IN  \A i \in 1..Len(hl) :
                /\ hl[i].title # ""
                /\ StartsWith(hl[i].link, "http://") \/ StartsWith(hl[i].link, "https://")

\* The positions of the elements of a page that the loop turns into records.
Emitting(body) == {i \in 1..Len(body) : Qualifies(body[i])}

\* The position in the page of the k-th record.
PositionOf(body, k) ==
    CHOOSE i \in Emitting(body) : Cardinality({j \in Emitting(body) : j <= i}) = k

\* C7: for every n in 1..20 and every fetched list, topHeadlines(n) has
\* exactly min(n, available) records; its k-th record is the k-th record of
\* the fetched list, which comes from the k-th emitting element of the
\* page: document order, duplicates kept, nothing reordered.
C7_FirstInDocumentOrder ==
    Done("headlines") /\ probe.out.fetched.diag = NoDiag =>
        LET body == probe.arg.resp.body
            n == probe.arg.n
            available == Cardinality(Emitting(body))
            top == probe.out.top
        IN  /\ n \in 1..20
            /\ Len(probe.out.fetched.value) = available
            /\ Len(top) = (IF n < available THEN n ELSE available)
            /\ \A k \in 1..Len(top) :
                   /\ top[k] = probe.out.fetched.value[k]
                   /\ top[k].link = body[PositionOf(body, k)].href

\* Two records were fetched, Beta before Alpha, and topHeadlines(1) is the
\* first of them.
C7_Witness ==
    /\ Done("headlines")
    /\ probe.arg.n = 1
    /\ probe.arg.resp.body = <<EBeta, EAlpha>>
    /\ Len(probe.out.fetched.value) = 2
    /\ probe.out.top = <<[title |-> "Beta", link |-> "http://b.example/2"]>>

\* C8 as stated: called with a text of 50 characters, summarize
\* short-circuits to InsufficientContent and the model is not invoked.
C8_ShortCircuit ==
    Done("summarize") /\ probe.arg.text.n = 50 =>
        /\ probe.out.modelCalls = 0
        /\ probe.out.value \notin {ModelOutput(probe.arg.text), ModelErrorMsg}

\* C8 amended: called with a text of 50 characters, summarize does not
\* short-circuit: it invokes the model once and returns the model's summary,
\* or the model-error string when the model call raises.
C8_AttemptsRegardless ==
    Done("summarize") /\ probe.arg.text.n = 50 =>
        /\ probe.out.modelCalls = 1
        /\ probe.arg.modelOk => probe.out.value = ModelOutput(probe.arg.text)
        /\ ~probe.arg.modelOk =>
              probe.out.value = "Could not summarize this article due to an AI model error. The article might be too complex or too long for the model."

\* summarize was called with 50 characters and returned the model's summary.
C8_Witness ==
    /\ Done("summarize")
    /\ probe.arg.text.n = 50
    /\ probe.arg.modelOk
    /\ probe.out.modelCalls = 1
    /\ probe.out.value = ModelOutput(probe.arg.text)

\* The fetch has failed: empty list, NetworkError reported, nothing listed.
FetchFailed ==
    /\ probe.out.fetched.value = <<>>
    /\ probe.out.fetched.diag = "Failed to fetch news headlines"
    /\ probe.out.top = <<>>

\* C9 as stated: a timeout, any transport failure or any non-2xx status
\* yields an empty list and a reported NetworkError, and topHeadlines(n) is
\* [] for every n.
C9_AnyNon2xx ==
    (/\ Done("headlines")
     /\ \/ probe.arg.resp.kind # "response"
        \/ probe.arg.resp.status \notin 200..299) => FetchFailed

\* C9 amended: a timeout, any transport failure or a 4xx or 5xx status
\* yields an empty list (never a partial one) and a reported NetworkError,
\* and topHeadlines(n) is [] for every n.
C9_FailedFetch ==
    (/\ Done("headlines")
     /\ \/ probe.arg.resp.kind # "response"
        \/ probe.arg.resp.status \in 400..599) => FetchFailed

\* The listing answered 404 with a page that holds two headlines; the
\* result is empty, with a NetworkError, and topHeadlines(20) is empty.
C9_Witness ==
    /\ Done("headlines")
    /\ probe.arg.resp.kind = "response"
    /\ probe.arg.resp.status = 404
    /\ probe.arg.resp.body = <<EAlpha, EBeta>>
    /\ probe.arg.n = 20
    /\ FetchFailed

====
